---------------------------- MODULE Spec2Model ----------------------------
(***************************************************************************)
(* Streaming consultation session of ConsultationForm (handleSubmit and    *)
(* the onmessage / onclose / onerror handlers it gives fetchEventSource),  *)
(* the zod schemas that validate a 'complete' payload, and the component   *)
(* state the handlers write.                                               *)
(***************************************************************************)
EXTENDS Integers, Sequences, FiniteSets, TLC

(***************************************************************************)
(* JSON values.  Every value is a tagged record, so that values of         *)
(* different JavaScript types can be compared.  An object is a function    *)
(* from its own keys; a key it lacks reads as undefined.                   *)
(***************************************************************************)
Undefined == [t |-> "undefined"]

Null == [t |-> "null"]

Str(s) == [t |-> "string", s |-> s]

Num(n) == [t |-> "number", n |-> n]

Arr(q) == [t |-> "array", a |-> q]

Obj(r) == [t |-> "object", o |-> r]

EmptyObj == Obj([k \in {} |-> Undefined])

\* obj[key] of JavaScript: undefined for a missing key.
Get(v, key) ==
    IF key \in DOMAIN v.o THEN v.o[key] ELSE Undefined

(***************************************************************************)
(* zod schema descriptors, one per combinator the schema file uses.        *)
(***************************************************************************)
ZString == [z |-> "string"]

\* Faulty variant: the field is declared z.string() instead of z.enum.
ZEnumAsString(values) == ZString

ZEnum(values) == [z |-> "enum", values |-> values]

ZOptionalNullable(inner) == [z |-> "optional_nullable", inner |-> inner]

\* Faulty variant: the array is declared .optional().nullable().
ZArrayOptional(element) ==
    ZOptionalNullable([z |-> "array", element |-> element])

ZArray(element) == [z |-> "array", element |-> element]

ZObject(shape) == [z |-> "object", shape |-> shape]

PhysicalExamFindingSchema ==
    ZObject([body_part |-> ZString, finding |-> ZString])

AssessmentSchema ==
    ZObject([diagnosis |-> ZString,
             icd_code  |-> ZOptionalNullable(ZString),
             severity  |-> ZOptionalNullable(ZEnum({"mild", "moderate", "severe"}))])

ClinicalSummarySchema ==
    ZObject([patient_name               |-> ZString,
             visit_date                 |-> ZString,
             chief_complaint            |-> ZString,
             history_of_present_illness |-> ZString,
             vital_signs                |-> ZOptionalNullable(ZString),
             physical_exam_findings     |-> ZArray(PhysicalExamFindingSchema),
             assessments                |-> ZArray(AssessmentSchema),
             additional_notes           |-> ZOptionalNullable(ZString)])

PatientInstructionSchema ==
    ZObject([instruction |-> ZString, category |-> ZString])

PatientFollowUpEmailSchema ==
    ZObject([greeting             |-> ZString,
             summary_of_findings  |-> ZString,
             treatment_plan       |-> ZString,
             patient_instructions |-> ZArray(PatientInstructionSchema),
             warning_signs        |-> ZArray(ZString),
             next_steps_timeline  |-> ZString,
             closing              |-> ZString,
             physician_signature  |-> ZString])

NextStepActionSchema ==
    ZObject([action_type |-> ZEnum({"diagnostic", "treatment", "referral",
                                    "follow-up", "education"}),
             description |-> ZString,
             priority    |-> ZOptionalNullable(ZEnum({"high", "medium", "low"})),
             timeline    |-> ZOptionalNullable(ZString)])

NextStepsSchema ==
    ZObject([actions               |-> ZArray(NextStepActionSchema),
             follow_up_appointment |-> ZOptionalNullable(ZString),
             red_flags             |-> ZOptionalNullable(ZArray(ZString))])

ConsultationSummaryResponseSchema ==
    ZObject([clinical_summary     |-> ClinicalSummarySchema,
             next_steps           |-> NextStepsSchema,
             patient_email        |-> PatientFollowUpEmailSchema,
             generation_timestamp |-> ZString,
             model_version        |-> ZOptionalNullable(ZString)])

(***************************************************************************)
(* schema.safeParse(value).  The result is [success, data, issues]: the    *)
(* issues name all the fields that failed (zod collects them all), each    *)
(* with its path and what was expected there, and data is the parsed       *)
(* value, in which an object keeps only the keys of its shape (zod's       *)
(* default for z.object strips unknown keys).                              *)
(***************************************************************************)
\* One entry of result.error.issues.
Issue(schema, path) ==
    [path     |-> path,
     expected |-> schema.z,
     options  |-> IF schema.z = "enum" THEN schema.values ELSE {}]

IndexKey(i) == <<"0", "1", "2", "3", "4", "5", "6", "7">>[i]

RECURSIVE Parse(_, _, _)
Parse(schema, value, path) ==
    CASE schema.z = "string" ->
           IF value.t = "string"
           THEN [success |-> TRUE, data |-> value, issues |-> {}]
           ELSE [success |-> FALSE, data |-> Undefined, issues |-> {Issue(schema, path)}]
      [] schema.z = "enum" ->
           IF value.t = "string" /\ value.s \in schema.values
           THEN [success |-> TRUE, data |-> value, issues |-> {}]
           ELSE [success |-> FALSE, data |-> Undefined, issues |-> {Issue(schema, path)}]
      [] schema.z = "optional_nullable" ->
           IF value.t \in {"undefined", "null"}
           THEN [success |-> TRUE, data |-> value, issues |-> {}]
           ELSE Parse(schema.inner, value, path)
      [] schema.z = "array" ->
           IF value.t # "array"
           THEN [success |-> FALSE, data |-> Undefined, issues |-> {Issue(schema, path)}]
           ELSE LET parsed == [i \in DOMAIN value.a |->
                                 Parse(schema.element, value.a[i],
                                       Append(path, IndexKey(i)))]
                IN  [success |-> \A i \in DOMAIN parsed : parsed[i].success,
                     data    |-> Arr([i \in DOMAIN parsed |-> parsed[i].data]),
                     issues  |-> UNION {parsed[i].issues : i \in DOMAIN parsed}]
      [] schema.z = "object" ->
           IF value.t # "object"
           THEN [success |-> FALSE, data |-> Undefined, issues |-> {Issue(schema, path)}]
           ELSE LET shape  == schema.shape
                    parsed == [key \in DOMAIN shape |->
                                 Parse(shape[key], Get(value, key),
                                       Append(path, key))]
                    kept   == {key \in DOMAIN shape :
                                 key \in DOMAIN value.o
                                   \/ parsed[key].data # Undefined}
                IN  [success |-> \A key \in DOMAIN shape : parsed[key].success,
                     data    |-> Obj([key \in kept |-> parsed[key].data]),
                     issues  |-> UNION {parsed[key].issues : key \in DOMAIN shape}]

\* Faulty variant: the validation stops at the first field that fails.
safeParseFirstIssue(schema, value) ==
    LET result == Parse(schema, value, <<>>)
    IN  IF result.success
        THEN [success |-> TRUE, data |-> result.data, issues |-> {}]
        ELSE [success |-> FALSE, data |-> Undefined,
              issues  |-> {CHOOSE issue \in result.issues : TRUE}]

safeParse(schema, value) ==
    LET result == Parse(schema, value, <<>>)
    IN  IF result.success
        THEN [success |-> TRUE, data |-> result.data, issues |-> {}]
        ELSE [success |-> FALSE, data |-> Undefined, issues |-> result.issues]


(***************************************************************************)
(* Payloads a 'complete' envelope may carry.                               *)
(***************************************************************************)
\* The payload of the component test (no vital_signs, empty arrays).
PayloadJohnDoe ==
    Obj([clinical_summary |-> Obj([
           patient_name               |-> Str("John Doe"),
           visit_date                 |-> Str("2025-11-15"),
           chief_complaint            |-> Str("Headache"),
           history_of_present_illness |-> Str("Patient reports headache."),
           physical_exam_findings     |-> Arr(<<>>),
           assessments                |-> Arr(<<Obj([diagnosis |-> Str("Test"),
                                                     icd_code  |-> Str("Z00.0"),
                                                     severity  |-> Str("mild")])>>),
           additional_notes           |-> Str("None")]),
         next_steps |-> Obj([
           actions |-> Arr(<<Obj([action_type |-> Str("follow-up"),
                                  description |-> Str("Schedule follow-up"),
                                  priority    |-> Str("medium"),
                                  timeline    |-> Str("1 week")])>>),
           follow_up_appointment |-> Str("2025-11-20"),
           red_flags             |-> Arr(<<>>)]),
         patient_email |-> Obj([
           greeting             |-> Str("Hi"),
           summary_of_findings  |-> Str("Summary"),
           treatment_plan       |-> Str("Plan"),
           patient_instructions |-> Arr(<<Obj([category    |-> Str("general"),
                                               instruction |-> Str("Rest")])>>),
           warning_signs        |-> Arr(<<>>),
           next_steps_timeline  |-> Str("Soon"),
           closing              |-> Str("Bye"),
           physician_signature  |-> Str("Dr. X")]),
         generation_timestamp |-> Str("2025-11-15T12:00:00Z"),
         model_version        |-> Str("gpt-4o")])

\* The valid payload of the schema test (vital_signs: null, no model_version).
PayloadDarin ==
    Obj([clinical_summary |-> Obj([
           patient_name               |-> Str("DARIN JESSIE WILLIAMS"),
           visit_date                 |-> Str("2025-11-15"),
           chief_complaint            |-> Str("Headache"),
           history_of_present_illness |-> Str("Patient reports headache."),
           vital_signs                |-> Null,
           physical_exam_findings     |-> Arr(<<Obj([body_part |-> Str("Head"),
                                                     finding   |-> Str("Tenderness")])>>),
           assessments                |-> Arr(<<Obj([diagnosis |-> Str("Tension headache"),
                                                     icd_code  |-> Str("G44.2"),
                                                     severity  |-> Str("mild")])>>),
           additional_notes           |-> Str("Recommend acetaminophen.")]),
         next_steps |-> Obj([
           actions |-> Arr(<<Obj([action_type |-> Str("treatment"),
                                  description |-> Str("Take acetaminophen"),
                                  priority    |-> Str("high"),
                                  timeline    |-> Str("As needed")])>>),
           follow_up_appointment |-> Str("2025-11-20"),
           red_flags             |-> Arr(<<Str("Severe headache"),
                                           Str("Vision changes")>>)]),
         patient_email |-> Obj([
           greeting             |-> Str("Hello Darin,"),
           summary_of_findings  |-> Str("Signs of tension headache"),
           treatment_plan       |-> Str("Use acetaminophen as needed"),
           patient_instructions |-> Arr(<<Obj([
               instruction |-> Str("Take acetaminophen when headache occurs"),
               category    |-> Str("medication")])>>),
           warning_signs        |-> Arr(<<Str("Sudden severe headache")>>),
           next_steps_timeline  |-> Str("Follow up in 5 days"),
           closing              |-> Str("Best regards,"),
           physician_signature  |-> Str("Dr. Smith")]),
         generation_timestamp |-> Str("2025-11-15T12:00:00Z")])

\* The invalid payload of the schema test: the three sub-objects are empty.
PayloadMissingFields ==
    Obj([clinical_summary     |-> EmptyObj,
         next_steps           |-> EmptyObj,
         patient_email        |-> EmptyObj,
         generation_timestamp |-> Str("2025-11-15T12:00:00Z")])

\* object with one key replaced or added ({...object, key: value}).
With(object, key, value) ==
    Obj([k \in DOMAIN object.o \cup {key} |->
           IF k = key THEN value ELSE object.o[k]])

\* PayloadJohnDoe with the assessment of the enum test (severity: "Mild").
PayloadBadEnum ==
    With(PayloadJohnDoe, "clinical_summary",
         With(Get(PayloadJohnDoe, "clinical_summary"), "assessments",
              Arr(<<Obj([diagnosis |-> Str("Migraine"),
                         severity  |-> Str("Mild")])>>)))

\* PayloadDarin with a key the schema does not declare.
PayloadExtraKey == With(PayloadDarin, "request_id", Str("r-1"))

\* The payloads the model's connection delivers: a valid one, a valid one
\* with an undeclared key, and an invalid one.
Payloads == {PayloadJohnDoe, PayloadExtraKey, PayloadMissingFields}

\* ConsultationSummaryResponseSchema.safeParse of the payloads (and of what
\* it leaves of them), computed once.
ParsedResponses ==
    [data \in Payloads \cup {PayloadDarin, Undefined} |->
       safeParse(ConsultationSummaryResponseSchema, data)]

\* ConsultationSummaryResponseSchema.safeParse(data).
safeParseResponse(data) ==
    IF data \in DOMAIN ParsedResponses
    THEN ParsedResponses[data]
    ELSE safeParse(ConsultationSummaryResponseSchema, data)

(***************************************************************************)
(* What the push connection may deliver.  ev.data is either the JSON text  *)
(* of a value or text that is no JSON at all.                              *)
(***************************************************************************)
JSONstringify(value) == [json |-> TRUE, value |-> value]

NotJSON == [json |-> FALSE]

\* JSON.parse(data): the value, or a thrown SyntaxError.
JSONparse(data) ==
    IF data.json THEN [threw |-> FALSE, value |-> data.value]
                 ELSE [threw |-> TRUE]

Chunk(content) == Obj([type |-> Str("chunk"), content |-> Str(content)])

Complete(data) == Obj([type |-> Str("complete"), data |-> data])

Error(message) == Obj([type |-> Str("error"), message |-> Str(message)])

ChunkContents == {"Hel", "lo"}

ErrorMessages == {"Something went wrong"}

Envelopes ==
    {Chunk(c) : c \in ChunkContents}
      \cup {Complete(d) : d \in Payloads}
      \cup {Error(m) : m \in ErrorMessages}
      \cup {Obj([type |-> Str("ping")])}

\* The raw messages: every envelope as JSON, the JSON text null, and a
\* frame that is not JSON.
RawMessages ==
    {JSONstringify(e) : e \in Envelopes} \cup {JSONstringify(Null), NotJSON}

TransportErrors == {"network error"}

\* What getToken() may resolve to: a credential, or none (null, or the
\* empty string, which !jwt also takes for none).
Tokens == {Str("fake-jwt"), Null, Str("")}

\* `${value}` and string += value of JavaScript.
String(value) ==
    CASE value.t = "string"    -> value.s
      [] value.t = "undefined" -> "undefined"
      [] value.t = "null"      -> "null"
      [] value.t = "number"    -> ToString(value.n)
      [] value.t = "array"     -> "[array]"
      [] value.t = "object"    -> "[object Object]"

\* Faulty variant: only a missing value counts, as in value === undefined.
OnlyUndefined(value) == value.t = "undefined"

\* !value of JavaScript, for the values getToken gives and the optional
\* fields the formatters test.
Falsy(value) ==
    \/ value.t \in {"undefined", "null"}
    \/ value.t = "string" /\ value.s = ""

(***************************************************************************)
(* Bounds of the model.                                                    *)
(***************************************************************************)
MaxSessions == 2

MaxMessages == 3

(***************************************************************************)
(* State.                                                                  *)
(*   structuredOutput, output, loading: the component's useState values.   *)
(*   sessions: one entry per call of handleSubmit, holding what the call   *)
(*     keeps in its closure (controller, buffer), where the call stands    *)
(*     (pc), how many connections it opened, how many terminal outcomes    *)
(*     it has reported, and the contents of the chunks its connection      *)
(*     received, in arrival order (chunks).                                *)
(*   alerts: how many times window.alert was called.                       *)
(*   delivered: how many messages the transport has delivered.             *)
(*   last: the step taken last: the operation, its session and input, the  *)
(*     texts it alerted and logged, and the outcome it reported.           *)
(***************************************************************************)
VARIABLES structuredOutput, output, loading, sessions, alerts, delivered, last

vars == <<structuredOutput, output, loading, sessions, alerts, delivered, last>>

Init ==
    /\ structuredOutput = Null
    /\ output = ""
    /\ loading = FALSE
    /\ sessions = <<>>
    /\ alerts = 0
    /\ delivered = 0
    /\ last = [op |-> "init"]

SessionIds == DOMAIN sessions

\* The connection of session s is open and its signal is not aborted: the
\* transport may call the handlers.
Live(s) ==
    /\ sessions[s].pc = "streaming"
    /\ sessions[s].controller = "live"

\* What a step records in last.
Step(op, s, input, branch, alert, console, outcome) ==
    [op |-> op, s |-> s, input |-> input, branch |-> branch,
     alert |-> alert, console |-> console, outcome |-> outcome]

\* A step that also logged result.error: its issues are recorded with it.
StepWithError(step, issues) ==
    [op |-> step.op, s |-> step.s, input |-> step.input,
     branch |-> step.branch, alert |-> step.alert, console |-> step.console,
     outcome |-> step.outcome, error |-> issues]

(***************************************************************************)
(* handleSubmit, up to its first await.  The form can be submitted only    *)
(* while the submit button is enabled.                                     *)
(***************************************************************************)
SubmitEnabled == ~loading

handleSubmit ==
    /\ SubmitEnabled
    /\ Len(sessions) < MaxSessions
    /\ output' = ""
    /\ loading' = TRUE
    /\ sessions' = Append(sessions, [pc          |-> "getToken",
                                     controller  |-> "none",
                                     buffer      |-> "",
                                     chunks      |-> <<>>,
                                     connections |-> 0,
                                     outcomes    |-> 0])
    /\ last' = Step("handleSubmit", Len(sessions) + 1, Undefined, "",
                    <<>>, <<>>, <<>>)
    /\ UNCHANGED <<structuredOutput, alerts, delivered>>

\* Faulty variant: the credential is not checked.
CredentialUnchecked(jwt) == FALSE

\* The test `if (!jwt)` of handleSubmit.
NoCredential(jwt) == Falsy(jwt)

(***************************************************************************)
(* handleSubmit after `await getToken()`: without a credential it fails,   *)
(* with one it creates the controller and the buffer and opens the         *)
(* connection.                                                             *)
(***************************************************************************)
\* Faulty variant: the buffer is kept outside handleSubmit and goes on from
\* the session before.
SharedBuffer ==
    IF Len(sessions) > 1 THEN sessions[Len(sessions) - 1].buffer ELSE ""

\* let buffer = '' of handleSubmit.
FreshBuffer == ""

getTokenResolved(s, jwt) ==
    /\ sessions[s].pc = "getToken"
    /\ IF NoCredential(jwt)
       THEN /\ output' = "Authentication required"
            /\ loading' = FALSE
            /\ sessions' = [sessions EXCEPT
                 ![s].pc = "unauthenticated",
                 ![s].outcomes = @ + 1]
            /\ last' = Step("getToken", s, jwt, "unauthenticated",
                            <<>>, <<>>, <<"Unauthenticated">>)
       ELSE /\ sessions' = [sessions EXCEPT
                 ![s].pc = "streaming",
                 ![s].controller = "live",
                 ![s].buffer = FreshBuffer,
                 ![s].chunks = <<>>,
                 ![s].connections = @ + 1]
            /\ last' = Step("getToken", s, jwt, "connect", <<>>, <<>>, <<>>)
            /\ UNCHANGED <<output, loading>>
    /\ UNCHANGED <<structuredOutput, alerts, delivered>>

\* getToken() rejects: the await throws and handleSubmit ends there.
getTokenRejected(s) ==
    /\ sessions[s].pc = "getToken"
    /\ sessions' = [sessions EXCEPT ![s].pc = "rejected"]
    /\ last' = Step("getToken", s, Undefined, "rejected", <<>>, <<>>, <<>>)
    /\ UNCHANGED <<structuredOutput, output, loading, alerts, delivered>>

(***************************************************************************)
(* onmessage(ev) of session s.  JSON.parse and the switch run inside one   *)
(* try block: a SyntaxError of JSON.parse, or the TypeError of reading     *)
(* .type of null, ends in the catch, which only logs.                      *)
(***************************************************************************)
\* Faulty variant: the chunk replaces the buffer.
ReplaceByChunk(buffer, content) == String(content)

\* buffer += parsed.content of case 'chunk'.
AppendChunk(buffer, content) == buffer \o String(content)

\* Faulty variant: case 'chunk' has no break and runs on into case
\* 'complete'.
TypeOfChunkRunsOn(parsed) ==
    IF parsed.t = "object"
    THEN IF Get(parsed, "type") = Str("chunk")
         THEN Str("complete") ELSE Get(parsed, "type")
    ELSE Undefined

\* Faulty variant: a type the switch does not know falls into case 'error'.
TypeOfFallsThrough(parsed) ==
    IF parsed.t = "object"
         /\ Get(parsed, "type") \in {Str("chunk"), Str("complete")}
    THEN Get(parsed, "type")
    ELSE Str("error")

\* parsed.type, for a parsed value that is not null.
TypeOf(parsed) ==
    IF parsed.t = "object" THEN Get(parsed, "type") ELSE Undefined

\* Faulty variant: the payload is accepted only after some text was
\* streamed.
ValidationSucceededAfterChunks(result) ==
    /\ result.success
    /\ \E s \in DOMAIN sessions : sessions[s].buffer # ""

\* Faulty variant: the result of the validation is not looked at.
ValidationIgnored(result) == TRUE

\* The test `if (result.success)` of case 'complete'.
ValidationSucceeded(result) == result.success

\* Faulty variant: a fixed text is alerted instead of the remote message.
ErrorAlertGeneric(message) == "Error: request failed"

\* The text case 'error' gives to alert.
ErrorAlert(message) == "Error: " \o String(message)

\* Faulty variant: the whole result of safeParse is stored, not its data.
CompleteOutputResult(result) ==
    Obj([success |-> Str("true"), data |-> result.data])

\* The value case 'complete' gives to setStructuredOutput.
CompleteOutput(result) == result.data

onmessage(s, data) ==
    /\ Live(s)
    /\ delivered < MaxMessages
    /\ delivered' = delivered + 1
    /\ output' = output
    /\ LET p == JSONparse(data) IN
       IF p.threw \/ p.value.t = "null"
       THEN /\ last' = Step("onmessage", s, data, "catch", <<>>,
                            <<"error: Failed to parse SSE message:",
                              "log: Raw data:">>, <<>>)
            /\ UNCHANGED <<structuredOutput, loading, sessions, alerts>>
       ELSE LET parsed == p.value
                type   == TypeOf(parsed)
            IN
            CASE type = Str("chunk") ->
                   /\ sessions' = [sessions EXCEPT
                        ![s].buffer =
                           AppendChunk(@, Get(parsed, "content")),
                        ![s].chunks = Append(@, Get(parsed, "content"))]
                   /\ last' = Step("onmessage", s, data, "chunk",
                                   <<>>, <<>>, <<>>)
                   /\ UNCHANGED <<structuredOutput, loading, alerts>>
              [] type = Str("complete") ->
                   LET result == safeParseResponse(Get(parsed, "data"))
                   IN  IF ValidationSucceeded(result)
                       THEN /\ structuredOutput' = CompleteOutput(result)
                            /\ loading' = FALSE
                            /\ sessions' = [sessions EXCEPT
                                 ![s].outcomes = @ + 1]
                            /\ last' = Step("onmessage", s, data, "complete",
                                 <<>>,
                                 <<"log: Stream complete, received validated data">>,
                                 <<"Done">>)
                            /\ UNCHANGED alerts
                       ELSE /\ alerts' = alerts + 1
                            /\ loading' = FALSE
                            /\ sessions' = [sessions EXCEPT
                                 ![s].outcomes = @ + 1]
                            /\ last' = StepWithError(
                                 Step("onmessage", s, data, "invalid",
                                      <<"Failed to validate response">>,
                                      <<"log: Stream complete, received validated data",
                                        "error: Validation failed:">>,
                                      <<"SchemaViolation">>),
                                 result.issues)
                            /\ UNCHANGED structuredOutput
              [] type = Str("error") ->
                   /\ alerts' = alerts + 1
                   /\ loading' = FALSE
                   /\ sessions' = [sessions EXCEPT ![s].outcomes = @ + 1]
                   /\ last' = Step("onmessage", s, data, "error",
                                   <<ErrorAlert(Get(parsed, "message"))>>,
                                   <<"error: Backend error:">>,
                                   <<"RemoteError">>)
                   /\ UNCHANGED structuredOutput
              [] OTHER ->
                   /\ last' = Step("onmessage", s, data, "default", <<>>,
                                   <<"warn: Unknown message type:">>, <<>>)
                   /\ UNCHANGED <<structuredOutput, loading, sessions, alerts>>

\* onclose() of session s: the stream ended; fetchEventSource returns.
onclose(s) ==
    /\ Live(s)
    /\ loading' = FALSE
    /\ sessions' = [sessions EXCEPT ![s].pc = "closed"]
    /\ last' = Step("onclose", s, Undefined, "", <<>>, <<>>, <<>>)
    /\ UNCHANGED <<structuredOutput, output, alerts, delivered>>

\* Faulty variant: onerror does not abort the controller.
AbortForgotten(s) == sessions

\* controller.abort() of session s.
Abort(s) == [sessions EXCEPT ![s].controller = "aborted"]

\* onerror(err) of session s: logs the error, aborts the controller (which
\* ends fetchEventSource) and clears loading.
onerror(s, err) ==
    /\ Live(s)
    /\ loading' = FALSE
    /\ sessions' = [Abort(s) EXCEPT
         ![s].pc = "failed",
         ![s].outcomes = @ + 1]
    /\ last' = Step("onerror", s, Str(err), "", <<>>,
                    <<"error: SSE error: " \o err>>, <<"TransportError">>)
    /\ UNCHANGED <<structuredOutput, output, alerts, delivered>>

Next ==
    \/ handleSubmit
    \/ \E s \in SessionIds : \E jwt \in Tokens : getTokenResolved(s, jwt)
    \/ \E s \in SessionIds : getTokenRejected(s)
    \/ \E s \in SessionIds : \E data \in RawMessages : onmessage(s, data)
    \/ \E s \in SessionIds : onclose(s)
    \/ \E s \in SessionIds : \E err \in TransportErrors : onerror(s, err)

Spec == Init /\ [][Next]_vars

(***************************************************************************)
(* Vocabulary of the properties.                                           *)
(***************************************************************************)
\* The raw message data is the JSON text of an envelope of the given type.
IsEnvelope(data, type) ==
    /\ data.json
    /\ data.value.t = "object"
    /\ Get(data.value, "type") = Str(type)

\* The payload of a 'complete' raw message passes the schema.
ValidComplete(data) ==
    /\ IsEnvelope(data, "complete")
    /\ safeParseResponse(Get(data.value, "data")).success

InvalidComplete(data) ==
    /\ IsEnvelope(data, "complete")
    /\ ~safeParseResponse(Get(data.value, "data")).success

\* Session s has received a 'complete' or 'error' envelope.  (A session
\* that is still live has reported nothing else.)
TerminalSeen(s) == Live(s) /\ sessions[s].outcomes > 0

(***************************************************************************)
(* C1.  Once onmessage has handled the first 'complete' or 'error'         *)
(* envelope of a session, no later envelope delivered to that session is   *)
(* processed: it changes none of the structured output, the loading flag   *)
(* and the buffer, and produces no further alert.                          *)
(* The handler keeps no record of a terminal envelope, so this fails.      *)
(***************************************************************************)
C1_NothingProcessedAfterTerminal ==
    [][\A s \in SessionIds :
         (TerminalSeen(s) /\ last'.op = "onmessage" /\ last'.s = s)
           => /\ structuredOutput' = structuredOutput
              /\ loading' = loading
              /\ sessions'[s].buffer = sessions[s].buffer
              /\ alerts' = alerts]_vars

(***************************************************************************)
(* C2.  A session never resolves twice: over every sequence of events of   *)
(* one session, at most one terminal outcome (Done, SchemaViolation,       *)
(* RemoteError, TransportError, Unauthenticated) is reported.              *)
(* A second terminal envelope is reported again, so this fails.            *)
(***************************************************************************)
C2_AtMostOneOutcome ==
    \A s \in SessionIds : sessions[s].outcomes <= 1

(***************************************************************************)
(* C3.  The structured output is always absent or a value that passes the  *)
(* whole ConsultationSummaryResponse schema, and a 'complete' envelope     *)
(* whose payload fails validation reports SchemaViolation (the validation  *)
(* alert), clears loading and leaves the structured output as it was.      *)
(***************************************************************************)
C3_OutputAbsentOrValidated ==
    [][/\ \/ structuredOutput' = Null
          \/ safeParseResponse(structuredOutput').success
       /\ (last'.op = "onmessage" /\ InvalidComplete(last'.input))
            => /\ structuredOutput' = structuredOutput
               /\ loading' = FALSE
               /\ last'.outcome = <<"SchemaViolation">>
               /\ last'.alert = <<"Failed to validate response">>
               /\ alerts' = alerts + 1]_vars

\* C3 witness: an invalid 'complete' envelope has just been handled while a
\* validated payload of an earlier envelope was shown, and it is still shown.
C3_Witness ==
    /\ last.op = "onmessage"
    /\ InvalidComplete(last.input)
    /\ structuredOutput = PayloadJohnDoe
    /\ ~loading

\* value without the keys schema does not declare, at every depth.
RECURSIVE Declared(_, _)
Declared(schema, value) ==
    CASE schema.z = "object" /\ value.t = "object" ->
           Obj([key \in DOMAIN schema.shape \cap DOMAIN value.o |->
                  Declared(schema.shape[key], value.o[key])])
      [] schema.z = "array" /\ value.t = "array" ->
           Arr([i \in DOMAIN value.a |->
                  Declared(schema.element, value.a[i])])
      [] schema.z = "optional_nullable" /\ value.t \notin {"undefined", "null"} ->
           Declared(schema.inner, value)
      [] OTHER -> value

(***************************************************************************)
(* C4 as written.  A 'complete' envelope whose payload satisfies the       *)
(* schema resolves the session as Done, loading becomes false, and the     *)
(* structured output equals the envelope's payload field for field.        *)
(* A valid payload with a key the schema does not declare refutes the      *)
(* last part: the structured output lacks that key.                        *)
(***************************************************************************)
C4_OutputEqualsPayload ==
    [][(last'.op = "onmessage" /\ ValidComplete(last'.input))
         => /\ last'.outcome = <<"Done">>
            /\ loading' = FALSE
            /\ structuredOutput' = Get(last'.input.value, "data")]_vars

(***************************************************************************)
(* C4 as amended.  A 'complete' envelope whose payload satisfies the       *)
(* schema resolves the session as Done, loading becomes false, no alert    *)
(* is raised, and the structured output equals the payload without the     *)
(* keys the schema does not declare (so the payload itself when it has     *)
(* none).                                                                  *)
(***************************************************************************)
C4_OutputEqualsDeclaredPayload ==
    [][(last'.op = "onmessage" /\ ValidComplete(last'.input))
         => /\ last'.outcome = <<"Done">>
            /\ loading' = FALSE
            /\ alerts' = alerts
            /\ structuredOutput' =
                 Declared(ConsultationSummaryResponseSchema,
                          Get(last'.input.value, "data"))]_vars

\* C4 witness: the valid payload with an undeclared key has just completed
\* a session, and the payload without that key is shown.
C4_Witness ==
    /\ last.op = "onmessage"
    /\ last.input = JSONstringify(Complete(PayloadExtraKey))
    /\ last.outcome = <<"Done">>
    /\ structuredOutput = PayloadDarin
    /\ structuredOutput # PayloadExtraKey
    /\ ~loading

(***************************************************************************)
(* C5.  An 'error' envelope (with a text message) reports RemoteError:     *)
(* loading becomes false, the structured output is left as it was, and     *)
(* the alert shown is "Error: " followed by the remote message, unchanged. *)
(***************************************************************************)
C5_ErrorEnvelopeReportsRemoteErrorVerbatim ==
    [][(/\ last'.op = "onmessage"
        /\ IsEnvelope(last'.input, "error")
        /\ Get(last'.input.value, "message").t = "string")
         => /\ last'.outcome = <<"RemoteError">>
            /\ loading' = FALSE
            /\ structuredOutput' = structuredOutput
            /\ alerts' = alerts + 1
            /\ last'.alert =
                 <<"Error: " \o Get(last'.input.value, "message").s>>]_vars

\* C5 witness: an 'error' envelope has just been handled in a session that
\* was loading with nothing shown; its message was alerted.
C5_Witness ==
    /\ last.op = "onmessage"
    /\ last.input = JSONstringify(Error("Something went wrong"))
    /\ last.alert = <<"Error: Something went wrong">>
    /\ structuredOutput = Null
    /\ ~loading
    /\ alerts = 1

(***************************************************************************)
(* C6.  When getToken gives no credential (null or the empty string), the  *)
(* session fails as Unauthenticated at once: output is "Authentication     *)
(* required", loading is false, the structured output is unchanged, no     *)
(* connection is opened and no controller exists; and no handler ever      *)
(* runs for an unauthenticated session.                                    *)
(***************************************************************************)
C6_NoCredentialNoConnection ==
    [][/\ (/\ last'.op = "getToken"
           /\ last'.branch # "rejected"
           /\ last'.input \in {Null, Str("")})
            => /\ sessions'[last'.s].pc = "unauthenticated"
               /\ last'.outcome = <<"Unauthenticated">>
               /\ output' = "Authentication required"
               /\ loading' = FALSE
               /\ structuredOutput' = structuredOutput
       /\ \A s \in DOMAIN sessions' :
            sessions'[s].pc = "unauthenticated"
              => /\ sessions'[s].connections = 0
                 /\ sessions'[s].controller = "none"
                 /\ sessions'[s].buffer = ""
                 /\ ~(/\ last'.op \in {"onmessage", "onclose", "onerror"}
                      /\ last'.s = s)]_vars

\* C6 witness: a second submission has just failed for want of a
\* credential, while the first session's payload is shown.
C6_Witness ==
    /\ last.op = "getToken"
    /\ last.input = Null
    /\ last.s = 2
    /\ sessions[2].pc = "unauthenticated"
    /\ sessions[2].connections = 0
    /\ structuredOutput = PayloadJohnDoe
    /\ output = "Authentication required"
    /\ ~loading

(***************************************************************************)
(* C7.  Once a second session has been started, no envelope of an earlier  *)
(* session that arrives afterwards changes the second session's state:     *)
(* the loading flag, the structured output shown, or its buffer.           *)
(* loading and structuredOutput belong to the component, not to a          *)
(* session, and onmessage does not know its session: this fails.           *)
(***************************************************************************)
C7_StaleEnvelopeChangesNothing ==
    [][(/\ last'.op = "onmessage"
        /\ last'.s < Len(sessions)
        /\ sessions[Len(sessions)].pc \in {"getToken", "streaming"})
         => /\ loading' = loading
            /\ structuredOutput' = structuredOutput
            /\ sessions'[Len(sessions)] = sessions[Len(sessions)]]_vars

(***************************************************************************)
(* C8.  At most one push connection is live at a time: starting a session  *)
(* while an earlier connection is still open first aborts the earlier one. *)
(* A terminal envelope re-enables the submit button without closing the    *)
(* connection, and handleSubmit aborts nothing: this fails.                *)
(***************************************************************************)
C8_AtMostOneLiveConnection ==
    Cardinality({s \in SessionIds : Live(s)}) <= 1

CallerCancels(s) ==
    /\ handleSubmit
    /\ sessions'[s].controller = "aborted"

(***************************************************************************)
(* C10.  The caller can cancel a session in any state: whenever a session  *)
(* is under way (awaiting its credential or streaming), an operation of    *)
(* the caller that aborts its cancellation token is possible.              *)
(* The controller is local to handleSubmit and aborted only by onerror:    *)
(* this fails.                                                             *)
(***************************************************************************)
C10_CallerCanCancel ==
    \A s \in SessionIds :
      sessions[s].pc \in {"getToken", "streaming"} => ENABLED CallerCancels(s)

(***************************************************************************)
(* C11.  The payload of an earlier session is discarded when a new         *)
(* submission begins: right after handleSubmit has started a session the   *)
(* structured output is absent, so a new session that fails never leaves   *)
(* the previous session's payload on display.                              *)
(***************************************************************************)
C11_NewSubmissionDiscardsPayload ==
    last.op = "handleSubmit" => structuredOutput = Null

\* The raw message data is not one the handler knows: it is not JSON, or
\* its type is none of chunk, complete and error.
Unrecognised(data) ==
    /\ ~IsEnvelope(data, "chunk")
    /\ ~IsEnvelope(data, "complete")
    /\ ~IsEnvelope(data, "error")

(***************************************************************************)
(* C12.  A raw message that is not valid JSON, or whose type is none of    *)
(* chunk, complete and error, raises nothing and does not end the session: *)
(* the buffer, the loading flag, the structured output and the alerts are  *)
(* left as they were and nothing is reported, so the session goes on from  *)
(* the state it had, as if the message had not arrived.                    *)
(***************************************************************************)
C12_UnrecognisedMessageIsSkipped ==
    [][(last'.op = "onmessage" /\ Unrecognised(last'.input))
         => /\ last'.branch \in {"catch", "default"}
            /\ last'.alert = <<>>
            /\ last'.outcome = <<>>
            /\ sessions' = sessions
            /\ loading' = loading
            /\ structuredOutput' = structuredOutput
            /\ output' = output
            /\ alerts' = alerts]_vars

\* C12 witness: a message of an unknown type has just been delivered to a
\* session that holds a chunk and is loading; the session is still live.
C12_Witness ==
    /\ last.op = "onmessage"
    /\ last.input = JSONstringify(Obj([type |-> Str("ping")]))
    /\ last.branch = "default"
    /\ Live(last.s)
    /\ sessions[last.s].buffer = "Hel"
    /\ loading
    /\ structuredOutput = Null

\* The concatenation of the texts of a sequence of chunk contents.
RECURSIVE Concat(_)
Concat(contents) ==
    IF contents = <<>> THEN ""
    ELSE Head(contents).s \o Concat(Tail(contents))

\* Text a is a prefix of text b, for a buffer grown by at most one chunk.
IsPrefix(a, b) == \E c \in {""} \cup ChunkContents : b = a \o c

(***************************************************************************)
(* C13.  The buffer of a session always equals the concatenation of the    *)
(* contents of the chunks delivered to it, in arrival order, whatever the  *)
(* chunk boundaries are; and within one connection the buffer only grows   *)
(* at its end: the earlier buffer is a prefix of the later one.            *)
(***************************************************************************)
C13_BufferIsConcatenationOfChunks ==
    [][\A s \in DOMAIN sessions' :
         /\ sessions'[s].buffer = Concat(sessions'[s].chunks)
         /\ (s \in SessionIds
               /\ sessions'[s].connections = sessions[s].connections)
              => IsPrefix(sessions[s].buffer, sessions'[s].buffer)]_vars

\* C13 witness: the chunks "Hel" and "lo" have arrived in this order and
\* the buffer holds "Hello", the text that "H" and "ello" also give.
C13_Witness ==
    /\ last.op = "onmessage"
    /\ last.branch = "chunk"
    /\ sessions[last.s].chunks = <<Str("Hel"), Str("lo")>>
    /\ sessions[last.s].buffer = "Hello"
    /\ sessions[last.s].buffer = Concat(<<Str("H"), Str("ello")>>)

(***************************************************************************)
(* C14.  Every session that has ended (its connection closed or failed,    *)
(* and loading false) has reported exactly one outcome, Done or Failed;    *)
(* in particular a connection that closes without a 'complete' or 'error'  *)
(* envelope has reported one.                                              *)
(* onclose reports nothing, so this fails.                                 *)
(***************************************************************************)
C14_EndedSessionReportedOnce ==
    \A s \in SessionIds :
      (sessions[s].pc \in {"closed", "failed"} /\ ~loading)
        => sessions[s].outcomes = 1

(***************************************************************************)
(* C15.  A session that was started with a credential keeps loading true,  *)
(* and with it the submit button disabled, from its start until its first  *)
(* terminal event (complete, error, close or transport error).             *)
(* An envelope delivered to an earlier session that is still connected     *)
(* clears the flag of the later one, so this fails.                        *)
(***************************************************************************)
C15_LoadingUntilFirstTerminalEvent ==
    \A s \in SessionIds :
      (sessions[s].pc = "streaming" /\ sessions[s].outcomes = 0)
        => (loading /\ ~SubmitEnabled)

(***************************************************************************)
(* The validator on its own, applied as the schema tests apply it:         *)
(* schema.safeParse(value) for a schema of the schema file and a value     *)
(* made from a payload of the tests by replacing or removing one field.    *)
(***************************************************************************)
Schemas ==
    [ConsultationSummaryResponseSchema |-> ConsultationSummaryResponseSchema,
     AssessmentSchema                  |-> AssessmentSchema,
     NextStepActionSchema              |-> NextStepActionSchema]

\* object without the key.
Without(object, key) ==
    Obj([k \in DOMAIN object.o \ {key} |-> object.o[k]])

\* object with object[key] = value; a value of undefined leaves the key out.
Put(object, key, value) ==
    IF value = Undefined THEN Without(object, key)
                         ELSE With(object, key, value)

\* value with the field at the path (keys and array indices) replaced.
RECURSIVE ReplaceAt(_, _, _)
ReplaceAt(value, path, new) ==
    IF path = <<>> THEN new
    ELSE IF value.t = "array"
    THEN Arr([i \in DOMAIN value.a |->
                IF IndexKey(i) = Head(path)
                THEN ReplaceAt(value.a[i], Tail(path), new)
                ELSE value.a[i]])
    ELSE Put(value, Head(path),
             ReplaceAt(Get(value, Head(path)), Tail(path), new))

\* The paths of the fields of the objects in value.
RECURSIVE FieldPaths(_, _)
FieldPaths(value, path) ==
    CASE value.t = "object" ->
           UNION {{Append(path, k)} \cup FieldPaths(value.o[k], Append(path, k))
                    : k \in DOMAIN value.o}
      [] value.t = "array" ->
           UNION {FieldPaths(value.a[i], Append(path, IndexKey(i)))
                    : i \in DOMAIN value.a}
      [] OTHER -> {}

\* The valid values the tests give to each schema.
ValidValues ==
    [ConsultationSummaryResponseSchema |-> {PayloadJohnDoe, PayloadDarin},
     AssessmentSchema |->
       {Obj([diagnosis |-> Str("Migraine"), severity |-> Str("mild")])},
     NextStepActionSchema |->
       {Obj([action_type |-> Str("treatment"),
             description |-> Str("Take acetaminophen"),
             priority    |-> Str("high"),
             timeline    |-> Str("As needed")])}]

\* What a field is replaced by: nothing (the key is left out), null, an
\* empty array, a number, and texts: the enum members and other spellings.
Replacements ==
    {Undefined, Null, Arr(<<>>), Num(0)}
      \cup {Str(s) : s \in {"mild", "moderate", "severe", "Mild", "MILD",
                            "diagnostic", "treatment", "referral",
                            "follow-up", "education", "Treatment", "followup",
                            "high", "medium", "low", "High", "LOW", ""}}

\* The calls: each schema, on each of its valid values with one field
\* replaced.
ValidatorCalls ==
    UNION {UNION {{[schema |-> n, base |-> b, path |-> p, value |-> v] :
                     p \in FieldPaths(b, <<>>), v \in Replacements}
                    : b \in ValidValues[n]}
             : n \in DOMAIN Schemas}

\* The component is not in use while a function is applied on its own.
NoForm ==
    /\ structuredOutput = Null
    /\ output = ""
    /\ loading = FALSE
    /\ sessions = <<>>
    /\ alerts = 0
    /\ delivered = 0

InitValidate ==
    /\ NoForm
    /\ \E c \in ValidatorCalls :
         last = [op     |-> "call",
                 schema |-> c.schema,
                 base   |-> c.base,
                 path   |-> c.path,
                 value  |-> c.value,
                 input  |-> ReplaceAt(c.base, c.path, c.value)]

\* result = schema.safeParse(input)
safeParseCall ==
    /\ last.op = "call"
    /\ last' = [op     |-> "safeParse",
                schema |-> last.schema,
                base   |-> last.base,
                path   |-> last.path,
                value  |-> last.value,
                input  |-> last.input,
                result |-> safeParse(Schemas[last.schema], last.input)]
    /\ UNCHANGED <<structuredOutput, output, loading, sessions, alerts,
                   delivered>>

NextValidate == safeParseCall

SpecValidate == InitValidate /\ [][NextValidate]_vars

\* The name of the field at a path.
FieldName(path) == path[Len(path)]

\* The closed set of each enumerated field.
EnumValues ==
    [severity    |-> {"mild", "moderate", "severe"},
     action_type |-> {"diagnostic", "treatment", "referral", "follow-up",
                      "education"},
     priority    |-> {"high", "medium", "low"}]

\* The fields that must be arrays, and the fields that may be left out.
RequiredArrays ==
    {"physical_exam_findings", "assessments", "actions",
     "patient_instructions", "warning_signs"}

OptionalFields ==
    {"vital_signs", "additional_notes", "icd_code", "severity", "priority",
     "timeline", "follow_up_appointment", "red_flags", "model_version"}

(***************************************************************************)
(* C16.  Enum validation is case-sensitive: in an otherwise valid value,   *)
(* a severity, action_type or priority that is given (not left out, not    *)
(* null) passes exactly when it is a text of the field's closed set;       *)
(* "Mild", "High", "Treatment", "" or a number fail.                       *)
(***************************************************************************)
C16_EnumValidationIsCaseSensitive ==
    (/\ last.op = "safeParse"
     /\ FieldName(last.path) \in DOMAIN EnumValues
     /\ last.value \notin {Undefined, Null})
      => (last.result.success
            <=> /\ last.value.t = "string"
                /\ last.value.s \in EnumValues[FieldName(last.path)])

\* C16 witness: the payload of the component test with the severity "Mild"
\* has been validated and failed, at that field only.
C16_Witness ==
    /\ last.op = "safeParse"
    /\ last.base = PayloadJohnDoe
    /\ last.path = <<"clinical_summary", "assessments", "0", "severity">>
    /\ last.value = Str("Mild")
    /\ ~last.result.success
    /\ {issue.path : issue \in last.result.issues} = {last.path}

(***************************************************************************)
(* C17.  Arrays may be empty but never absent: a value that lacks          *)
(* physical_exam_findings, assessments, actions, patient_instructions or   *)
(* warning_signs (or has null there) fails validation, each of them as an  *)
(* empty array passes, and leaving a field out passes exactly for the      *)
(* optional fields, red_flags among them.                                  *)
(***************************************************************************)
C17_ArraysMayBeEmptyButNotAbsent ==
    last.op = "safeParse" =>
      /\ (FieldName(last.path) \in RequiredArrays
            /\ last.value \in {Undefined, Null})
           => ~last.result.success
      /\ (FieldName(last.path) \in RequiredArrays \cup {"red_flags"}
            /\ last.value = Arr(<<>>))
           => last.result.success
      /\ last.value = Undefined
           => (last.result.success
                 <=> FieldName(last.path) \in OptionalFields)

\* C17 witness: the payload of the schema test without warning_signs has
\* been validated and failed.
C17_Witness ==
    /\ last.op = "safeParse"
    /\ last.base = PayloadDarin
    /\ last.path = <<"patient_email", "warning_signs">>
    /\ last.value = Undefined
    /\ ~last.result.success
    /\ {issue.path : issue \in last.result.issues} = {last.path}

\* The fields of PayloadMissingFields that violate the schema: path and
\* expected shape of every required field its three empty objects lack.
MissingFieldsViolations ==
    {[path |-> <<"clinical_summary", k>>, expected |-> "string", options |-> {}] :
       k \in {"patient_name", "visit_date", "chief_complaint",
              "history_of_present_illness"}}
    \cup {[path |-> <<"clinical_summary", k>>, expected |-> "array", options |-> {}] :
       k \in {"physical_exam_findings", "assessments"}}
    \cup {[path |-> <<"next_steps", "actions">>, expected |-> "array",
           options |-> {}]}
    \cup {[path |-> <<"patient_email", k>>, expected |-> "string", options |-> {}] :
       k \in {"greeting", "summary_of_findings", "treatment_plan",
              "next_steps_timeline", "closing", "physician_signature"}}
    \cup {[path |-> <<"patient_email", k>>, expected |-> "array", options |-> {}] :
       k \in {"patient_instructions", "warning_signs"}}

NL == "\n"

\* Stands for the two characters U+26A0 U+FE0F of the red-flags header,
\* which a TLA+ string cannot hold.
WarningSign == "(!)"

RECURSIVE Flatten(_)
Flatten(seqs) ==
    IF seqs = <<>> THEN <<>> ELSE Head(seqs) \o Flatten(Tail(seqs))

RECURSIVE Text(_)
Text(pieces) ==
    IF pieces = <<>> THEN "" ELSE Head(pieces) \o Text(Tail(pieces))

\* Faulty variant: the text is left in lower case.
toUpperCaseForgotten(text) == text

\* text.toUpperCase(), for the texts an action_type can be.
toUpperCase(text) ==
    CASE text = "diagnostic" -> "DIAGNOSTIC"
      [] text = "treatment"  -> "TREATMENT"
      [] text = "referral"   -> "REFERRAL"
      [] text = "follow-up"  -> "FOLLOW-UP"
      [] text = "education"  -> "EDUCATION"

\* output += `- ${finding.body_part}: ${finding.finding}\n`
FindingLine(finding) ==
    <<"- " \o String(Get(finding, "body_part")) \o ": "
           \o String(Get(finding, "finding")),
      NL>>

\* Faulty variant: the severity is appended before the ICD-10 code.
AssessmentLineSeverityFirst(assessment, n) ==
    <<ToString(n) \o ". " \o String(Get(assessment, "diagnosis"))>>
      \o (IF ~Falsy(Get(assessment, "severity"))
          THEN <<" - Severity: " \o String(Get(assessment, "severity"))>>
          ELSE <<>>)
      \o (IF ~Falsy(Get(assessment, "icd_code"))
          THEN <<" (ICD-10: " \o String(Get(assessment, "icd_code")) \o ")">>
          ELSE <<>>)
      \o <<NL>>

\* The body of assessments.forEach, n being i + 1.
AssessmentLine(assessment, n) ==
    <<ToString(n) \o ". " \o String(Get(assessment, "diagnosis"))>>
      \o (IF ~Falsy(Get(assessment, "icd_code"))
          THEN <<" (ICD-10: " \o String(Get(assessment, "icd_code")) \o ")">>
          ELSE <<>>)
      \o (IF ~Falsy(Get(assessment, "severity"))
          THEN <<" - Severity: " \o String(Get(assessment, "severity"))>>
          ELSE <<>>)
      \o <<NL>>

formatClinicalSummary(summary) ==
    LET vital_signs      == Get(summary, "vital_signs")
        findings         == Get(summary, "physical_exam_findings").a
        assessments      == Get(summary, "assessments").a
        additional_notes == Get(summary, "additional_notes")
    IN  <<"Patient: " \o String(Get(summary, "patient_name")), NL,
          "Date: " \o String(Get(summary, "visit_date")), NL,
          NL,
          "Chief Complaint: " \o String(Get(summary, "chief_complaint")), NL,
          NL,
          "History of Present Illness:", NL,
          String(Get(summary, "history_of_present_illness")), NL>>
        \o (IF ~Falsy(vital_signs)
            THEN <<NL, "Vital Signs:", NL, String(vital_signs), NL>>
            ELSE <<>>)
        \o (IF Len(findings) > 0
            THEN <<NL, "Physical Examination:", NL>>
                   \o Flatten([i \in DOMAIN findings |->
                                 FindingLine(findings[i])])
            ELSE <<>>)
        \o <<NL, "Assessment:", NL>>
        \o Flatten([i \in DOMAIN assessments |->
                      AssessmentLine(assessments[i], i)])
        \o (IF ~Falsy(additional_notes)
            THEN <<NL, "Additional Notes:", NL, String(additional_notes), NL>>
            ELSE <<>>)

\* Faulty variant: the numbering goes on from a count kept between calls.
ActionLineCounting(action, n) ==
    <<ToString(n + alerts) \o ". ["
        \o toUpperCase(String(Get(action, "action_type"))) \o "] "
        \o String(Get(action, "description"))>>
      \o (IF ~Falsy(Get(action, "timeline"))
          THEN <<" (Timeline: " \o String(Get(action, "timeline")) \o ")">>
          ELSE <<>>)
      \o (IF ~Falsy(Get(action, "priority"))
          THEN <<" [Priority: " \o String(Get(action, "priority")) \o "]">>
          ELSE <<>>)
      \o <<NL>>

\* The body of actions.forEach, n being i + 1.
ActionLine(action, n) ==
    <<ToString(n) \o ". ["
        \o toUpperCase(String(Get(action, "action_type"))) \o "] "
        \o String(Get(action, "description"))>>
      \o (IF ~Falsy(Get(action, "timeline"))
          THEN <<" (Timeline: " \o String(Get(action, "timeline")) \o ")">>
          ELSE <<>>)
      \o (IF ~Falsy(Get(action, "priority"))
          THEN <<" [Priority: " \o String(Get(action, "priority")) \o "]">>
          ELSE <<>>)
      \o <<NL>>

formatNextSteps(nextSteps) ==
    LET actions               == Get(nextSteps, "actions").a
        follow_up_appointment == Get(nextSteps, "follow_up_appointment")
        red_flags             == Get(nextSteps, "red_flags")
    IN  Flatten([i \in DOMAIN actions |-> ActionLine(actions[i], i)])
        \o (IF ~Falsy(follow_up_appointment)
            THEN <<NL,
                   "Follow-up Appointment: " \o String(follow_up_appointment),
                   NL>>
            ELSE <<>>)
        \o (IF ~Falsy(red_flags) /\ Len(red_flags.a) > 0
            THEN <<NL, WarningSign \o " Red Flags - Call immediately if:", NL>>
                   \o Flatten([i \in DOMAIN red_flags.a |->
                                 <<"- " \o String(red_flags.a[i]), NL>>])
            ELSE <<>>)

(***************************************************************************)
(* The formatters on their own, applied as the formatter tests apply them, *)
(* to summaries and next steps that pass the schema: every optional text   *)
(* left out, null, empty or given, and every list with up to MaxItems      *)
(* entries.                                                                *)
(***************************************************************************)
MaxItems == 2

SeqsUpTo(S, n) == UNION {[1..k -> S] : k \in 0..n}

OptionalTexts(text) == {Undefined, Null, Str(""), Str(text)}

Findings ==
    {Obj([body_part |-> Str("Head"), finding |-> Str("Tenderness")]),
     Obj([body_part |-> Str("Neck"), finding |-> Str("Supple")])}

Assessments ==
    {Obj([diagnosis |-> Str("Tension headache"),
          icd_code  |-> Str("G44.2"),
          severity  |-> Str("mild")]),
     Obj([diagnosis |-> Str("Test")]),
     Obj([diagnosis |-> Str("Migraine"),
          icd_code  |-> Str("G43.9"),
          severity  |-> Null]),
     Obj([diagnosis |-> Str("Dehydration"),
          icd_code  |-> Str(""),
          severity  |-> Str("severe")])}

ClinicalSummaries ==
    {Put(Put(Obj([patient_name               |-> Str("John Doe"),
                  visit_date                 |-> Str("2025-11-15"),
                  chief_complaint            |-> Str("Headache"),
                  history_of_present_illness |-> Str("Patient reports headache."),
                  physical_exam_findings     |-> Arr(f),
                  assessments                |-> Arr(a)]),
             "vital_signs", v),
         "additional_notes", n) :
       v \in OptionalTexts("BP 120/80"),
       f \in SeqsUpTo(Findings, MaxItems),
       a \in SeqsUpTo(Assessments, MaxItems),
       n \in OptionalTexts("Recommend acetaminophen.")}

Actions ==
    {Obj([action_type |-> Str(t),
          description |-> Str("Take acetaminophen"),
          priority    |-> Str("high"),
          timeline    |-> Str("As needed")]) :
       t \in {"diagnostic", "treatment", "referral", "follow-up", "education"}}
    \cup {Obj([action_type |-> Str("follow-up"),
               description |-> Str("Schedule follow-up")]),
          Obj([action_type |-> Str("referral"),
               description |-> Str("See a neurologist"),
               priority    |-> Null,
               timeline    |-> Str("1 week")]),
          Obj([action_type |-> Str("education"),
               description |-> Str("Keep a headache diary"),
               priority    |-> Str("low"),
               timeline    |-> Str("")])}

RedFlags == {Str("Severe headache"), Str("Vision changes")}

NextStepsValues ==
    {Put(Put(Obj([actions |-> Arr(a)]),
             "follow_up_appointment", f),
         "red_flags", r) :
       a \in SeqsUpTo(Actions, MaxItems),
       f \in OptionalTexts("2025-11-20"),
       r \in {Undefined, Null} \cup {Arr(q) : q \in SeqsUpTo(RedFlags, MaxItems)}}

\* Stands for the character U+2022 that starts a line of the patient email,
\* which a TLA+ string cannot hold.
Bullet == "*"

\* Faulty variant: the category is left as it is given.
capitalizeForgotten(text) == text

\* text.charAt(0).toUpperCase() + text.slice(1), for the texts a category
\* is in the model.
capitalize(text) ==
    CASE text = "medication" -> "Medication"
      [] text = "general"    -> "General"
      [] text = "Activity"   -> "Activity"
      [] text = ""           -> ""

\* The body of patient_instructions.forEach.
InstructionLine(instruction) ==
    <<Bullet \o " [" \o capitalize(String(Get(instruction, "category")))
        \o "] " \o String(Get(instruction, "instruction")),
      NL>>

formatPatientEmail(email) ==
    LET patient_instructions == Get(email, "patient_instructions").a
        warning_signs        == Get(email, "warning_signs").a
    IN  <<String(Get(email, "greeting")), NL,
          NL,
          String(Get(email, "summary_of_findings")), NL,
          NL,
          "What we're doing next:", NL,
          String(Get(email, "treatment_plan")), NL,
          NL,
          "What you should do:", NL>>
        \o Flatten([i \in DOMAIN patient_instructions |->
                      InstructionLine(patient_instructions[i])])
        \o (IF Len(warning_signs) > 0
            THEN <<NL,
                   WarningSign \o " Call us immediately if you experience:",
                   NL>>
                   \o Flatten([i \in DOMAIN warning_signs |->
                                 <<Bullet \o " " \o String(warning_signs[i]),
                                   NL>>])
            ELSE <<>>)
        \o <<NL, "Next Steps:", NL,
              String(Get(email, "next_steps_timeline")), NL>>
        \o <<NL, String(Get(email, "closing")), NL,
              NL, String(Get(email, "physician_signature"))>>

Instructions ==
    {Obj([instruction |-> Str("Take acetaminophen when headache occurs"),
          category    |-> Str("medication")]),
     Obj([instruction |-> Str("Rest"), category |-> Str("general")]),
     Obj([instruction |-> Str("Avoid screens"), category |-> Str("Activity")]),
     Obj([instruction |-> Str("Drink water"), category |-> Str("")])}

WarningSigns == {Str("Sudden severe headache"), Str("Fever")}

Emails ==
    {Obj([greeting             |-> Str("Hi John,"),
          summary_of_findings  |-> Str("Signs of tension headache"),
          treatment_plan       |-> Str("Use acetaminophen as needed"),
          patient_instructions |-> Arr(i),
          warning_signs        |-> Arr(w),
          next_steps_timeline  |-> Str("Follow up in 5 days"),
          closing              |-> Str("Best regards,"),
          physician_signature  |-> Str("Dr. Smith")]) :
       i \in SeqsUpTo(Instructions, MaxItems),
       w \in SeqsUpTo(WarningSigns, MaxItems)}

InitFormat ==
    /\ NoForm
    /\ \/ \E summary \in ClinicalSummaries :
            last = [op |-> "call", fn |-> "formatClinicalSummary",
                    input |-> summary]
       \/ \E nextSteps \in NextStepsValues :
            last = [op |-> "call", fn |-> "formatNextSteps",
                    input |-> nextSteps]
       \/ \E email \in Emails :
            last = [op |-> "call", fn |-> "formatPatientEmail",
                    input |-> email]

\* result = formatClinicalSummary(summary)
formatClinicalSummaryCall ==
    /\ last.op = "call"
    /\ last.fn = "formatClinicalSummary"
    /\ last' = [op     |-> "formatClinicalSummary",
                input  |-> last.input,
                result |-> formatClinicalSummary(last.input)]
    /\ UNCHANGED <<structuredOutput, output, loading, sessions, alerts,
                   delivered>>

\* result = formatNextSteps(nextSteps)
formatNextStepsCall ==
    /\ last.op = "call"
    /\ last.fn = "formatNextSteps"
    /\ last' = [op     |-> "formatNextSteps",
                input  |-> last.input,
                result |-> formatNextSteps(last.input)]
    /\ UNCHANGED <<structuredOutput, output, loading, sessions, alerts,
                   delivered>>

\* result = formatPatientEmail(email)
formatPatientEmailCall ==
    /\ last.op = "call"
    /\ last.fn = "formatPatientEmail"
    /\ last' = [op     |-> "formatPatientEmail",
                input  |-> last.input,
                result |-> formatPatientEmail(last.input)]
    /\ UNCHANGED <<structuredOutput, output, loading, sessions, alerts,
                   delivered>>

NextFormat ==
    \/ formatClinicalSummaryCall
    \/ formatNextStepsCall
    \/ formatPatientEmailCall

SpecFormat == InitFormat /\ [][NextFormat]_vars

(***************************************************************************)
(* Vocabulary of the properties of the formatters.                         *)
(***************************************************************************)
\* The lines of a text: what stands before each line break, and the rest
\* after the last one ("" when the text ends with a line break).
RECURSIVE SplitLines(_, _, _)
SplitLines(pieces, lines, rest) ==
    IF pieces = <<>> THEN [lines |-> lines, rest |-> rest]
    ELSE IF Head(pieces) = NL
    THEN SplitLines(Tail(pieces), Append(lines, rest), "")
    ELSE SplitLines(Tail(pieces), lines, rest \o Head(pieces))

Lines(pieces) == SplitLines(pieces, <<>>, "")

\* An optional text is present: it is given and not empty.
Given(value) == value.t = "string" /\ value.s # ""

\* The line of the n-th assessment.
ExpectedAssessmentLine(assessment, n) ==
    ToString(n) \o ". " \o Get(assessment, "diagnosis").s
      \o (IF Given(Get(assessment, "icd_code"))
          THEN " (ICD-10: " \o Get(assessment, "icd_code").s \o ")" ELSE "")
      \o (IF Given(Get(assessment, "severity"))
          THEN " - Severity: " \o Get(assessment, "severity").s ELSE "")

\* The blocks of the clinical summary, as lines.
ExpectedHeader(summary) ==
    <<"Patient: " \o Get(summary, "patient_name").s,
      "Date: " \o Get(summary, "visit_date").s,
      "",
      "Chief Complaint: " \o Get(summary, "chief_complaint").s,
      "",
      "History of Present Illness:",
      Get(summary, "history_of_present_illness").s>>

ExpectedVitalSigns(summary) ==
    IF Given(Get(summary, "vital_signs"))
    THEN <<"", "Vital Signs:", Get(summary, "vital_signs").s>>
    ELSE <<>>

ExpectedPhysicalExam(summary) ==
    LET findings == Get(summary, "physical_exam_findings").a
    IN  IF findings # <<>>
        THEN <<"", "Physical Examination:">>
               \o [i \in DOMAIN findings |->
                     "- " \o Get(findings[i], "body_part").s \o ": "
                          \o Get(findings[i], "finding").s]
        ELSE <<>>

ExpectedAssessment(summary) ==
    LET assessments == Get(summary, "assessments").a
    IN  <<"", "Assessment:">>
          \o [i \in DOMAIN assessments |->
                ExpectedAssessmentLine(assessments[i], i)]

ExpectedAdditionalNotes(summary) ==
    IF Given(Get(summary, "additional_notes"))
    THEN <<"", "Additional Notes:", Get(summary, "additional_notes").s>>
    ELSE <<>>

(***************************************************************************)
(* C19.  formatClinicalSummary emits, in this order and with every line    *)
(* ended by a line break: the header (patient, date, chief complaint,      *)
(* history of present illness); the vital-signs block if and only if       *)
(* vital signs are present; the physical-examination block if and only if  *)
(* there are findings, with one "- {body_part}: {finding}" line per        *)
(* finding in input order; always the assessment block, with one line      *)
(* "{n}. {diagnosis}" per assessment numbered from 1 in input order, the   *)
(* ICD-10 suffix before the severity suffix; and the additional-notes      *)
(* block if and only if notes are present.                                 *)
(***************************************************************************)
C19_ClinicalSummaryLayout ==
    last.op = "formatClinicalSummary" =>
      Lines(last.result) =
        [lines |-> ExpectedHeader(last.input)
                     \o ExpectedVitalSigns(last.input)
                     \o ExpectedPhysicalExam(last.input)
                     \o ExpectedAssessment(last.input)
                     \o ExpectedAdditionalNotes(last.input),
         rest  |-> ""]

\* C19 witness: the summary of the formatter test has been formatted, with
\* all five blocks.
C19_Witness ==
    /\ last.op = "formatClinicalSummary"
    /\ Get(last.input, "vital_signs") = Str("BP 120/80")
    /\ Text(last.result) =
         "Patient: John Doe\nDate: 2025-11-15\n\nChief Complaint: Headache\n\n"
           \o "History of Present Illness:\nPatient reports headache.\n"
           \o "\nVital Signs:\nBP 120/80\n"
           \o "\nPhysical Examination:\n- Head: Tenderness\n"
           \o "\nAssessment:\n1. Tension headache (ICD-10: G44.2) - Severity: mild\n"
           \o "\nAdditional Notes:\nRecommend acetaminophen.\n"

\* The action types in upper case.
UpperCaseOf(action_type) ==
    CASE action_type = "diagnostic" -> "DIAGNOSTIC"
      [] action_type = "treatment"  -> "TREATMENT"
      [] action_type = "referral"   -> "REFERRAL"
      [] action_type = "follow-up"  -> "FOLLOW-UP"
      [] action_type = "education"  -> "EDUCATION"

\* The line of the n-th action.
ExpectedActionLine(action, n) ==
    ToString(n) \o ". [" \o UpperCaseOf(Get(action, "action_type").s) \o "] "
      \o Get(action, "description").s
      \o (IF Given(Get(action, "timeline"))
          THEN " (Timeline: " \o Get(action, "timeline").s \o ")" ELSE "")
      \o (IF Given(Get(action, "priority"))
          THEN " [Priority: " \o Get(action, "priority").s \o "]" ELSE "")

ExpectedActions(nextSteps) ==
    LET actions == Get(nextSteps, "actions").a
    IN  [i \in DOMAIN actions |-> ExpectedActionLine(actions[i], i)]

ExpectedFollowUp(nextSteps) ==
    IF Given(Get(nextSteps, "follow_up_appointment"))
    THEN <<"", "Follow-up Appointment: "
                 \o Get(nextSteps, "follow_up_appointment").s>>
    ELSE <<>>

ExpectedRedFlags(nextSteps) ==
    LET red_flags == Get(nextSteps, "red_flags")
    IN  IF red_flags.t = "array" /\ red_flags.a # <<>>
        THEN <<"", WarningSign \o " Red Flags - Call immediately if:">>
               \o [i \in DOMAIN red_flags.a |-> "- " \o red_flags.a[i].s]
        ELSE <<>>

(***************************************************************************)
(* C20.  formatNextSteps emits one line per action, in input order,        *)
(* "{n}. [{ACTION_TYPE in upper case}] {description}" numbered from 1,     *)
(* with the timeline suffix (if a timeline is present) before the priority *)
(* suffix (if a priority is present); then the follow-up-appointment line  *)
(* if and only if an appointment is present; then the red-flags header     *)
(* and one "- {flag}" line per flag, in input order, if and only if        *)
(* red_flags is present and not empty.                                     *)
(***************************************************************************)
C20_NextStepsLayout ==
    last.op = "formatNextSteps" =>
      Lines(last.result) =
        [lines |-> ExpectedActions(last.input)
                     \o ExpectedFollowUp(last.input)
                     \o ExpectedRedFlags(last.input),
         rest  |-> ""]

\* C20 witness: the next steps of the formatter test have been formatted:
\* an action with timeline and priority, an appointment and two red flags.
C20_Witness ==
    /\ last.op = "formatNextSteps"
    /\ Get(last.input, "red_flags") =
         Arr(<<Str("Severe headache"), Str("Vision changes")>>)
    /\ Text(last.result) =
         "1. [TREATMENT] Take acetaminophen (Timeline: As needed) [Priority: high]\n"
           \o "\nFollow-up Appointment: 2025-11-20\n"
           \o "\n" \o WarningSign \o " Red Flags - Call immediately if:\n"
           \o "- Severe headache\n- Vision changes\n"

\* The categories with their first letter in upper case.
CapitalizedOf(category) ==
    CASE category = "medication" -> "Medication"
      [] category = "general"    -> "General"
      [] category = "Activity"   -> "Activity"
      [] category = ""           -> ""

ExpectedInstructions(email) ==
    LET instructions == Get(email, "patient_instructions").a
    IN  <<"What you should do:">>
          \o [i \in DOMAIN instructions |->
                Bullet \o " [" \o CapitalizedOf(Get(instructions[i], "category").s)
                  \o "] " \o Get(instructions[i], "instruction").s]

ExpectedWarningSigns(email) ==
    LET warning_signs == Get(email, "warning_signs").a
    IN  IF warning_signs # <<>>
        THEN <<"", WarningSign \o " Call us immediately if you experience:">>
               \o [i \in DOMAIN warning_signs |->
                     Bullet \o " " \o warning_signs[i].s]
        ELSE <<>>

(***************************************************************************)
(* C21.  formatPatientEmail emits its sections in the fixed order:         *)
(* greeting, findings summary, treatment-plan section, instructions        *)
(* section with one line "* [{category, first letter in upper case}]       *)
(* {instruction}" per instruction in input order, the warning-signs block  *)
(* if and only if there are warning signs, the Next Steps section with     *)
(* the timeline text, the closing, and last the physician signature.       *)
(***************************************************************************)
C21_PatientEmailLayout ==
    last.op = "formatPatientEmail" =>
      Lines(last.result) =
        [lines |-> <<Get(last.input, "greeting").s,
                     "",
                     Get(last.input, "summary_of_findings").s,
                     "",
                     "What we're doing next:",
                     Get(last.input, "treatment_plan").s,
                     "">>
                     \o ExpectedInstructions(last.input)
                     \o ExpectedWarningSigns(last.input)
                     \o <<"",
                          "Next Steps:",
                          Get(last.input, "next_steps_timeline").s,
                          "",
                          Get(last.input, "closing").s,
                          "">>,
         rest  |-> Get(last.input, "physician_signature").s]

\* C21 witness: the email of the formatter test has been formatted.
C21_Witness ==
    /\ last.op = "formatPatientEmail"
    /\ Text(last.result) =
         "Hi John,\n\nSigns of tension headache\n"
           \o "\nWhat we're doing next:\nUse acetaminophen as needed\n"
           \o "\nWhat you should do:\n"
           \o Bullet \o " [Medication] Take acetaminophen when headache occurs\n"
           \o "\n" \o WarningSign \o " Call us immediately if you experience:\n"
           \o Bullet \o " Sudden severe headache\n"
           \o "\nNext Steps:\nFollow up in 5 days\n"
           \o "\nBest regards,\n\nDr. Smith"

(***************************************************************************)
(* C22.  The text a formatter returns is empty or ends with a line break.  *)
(* formatPatientEmail ends its text with the physician signature, with no  *)
(* line break after it, so this fails.                                     *)
(***************************************************************************)
C22_OutputEndsWithLineBreak ==
    last.op \in {"formatClinicalSummary", "formatNextSteps",
                 "formatPatientEmail"}
      => Lines(last.result).rest = ""

(***************************************************************************)
(* The page with its results.  When structuredOutput is set the component  *)
(* renders the three texts, each formatter applied to its part of          *)
(* structuredOutput; it does so again on every render, whatever the        *)
(* sessions did in between.                                                *)
(***************************************************************************)
\* The three texts of the results.
Texts(response) ==
    [clinical   |-> formatClinicalSummary(Get(response, "clinical_summary")),
     next_steps |-> formatNextSteps(Get(response, "next_steps")),
     email      |-> formatPatientEmail(Get(response, "patient_email"))]

\* The texts of the validated payloads, computed once.
RenderedTexts ==
    [response \in {ParsedResponses[data].data :
                     data \in {d \in Payloads : ParsedResponses[d].success}}
       |-> Texts(response)]

render ==
    /\ ~Falsy(structuredOutput)
    /\ last' = [op    |-> "render",
                input |-> structuredOutput,
                texts |-> IF structuredOutput \in DOMAIN RenderedTexts
                          THEN RenderedTexts[structuredOutput]
                          ELSE Texts(structuredOutput)]
    /\ UNCHANGED <<structuredOutput, output, loading, sessions, alerts,
                   delivered>>

NextPage ==
    \/ Next
    \/ render

SpecPage == Init /\ [][NextPage]_vars

\* The text of each formatter as a function of its input alone: the lines
\* of the text and what follows the last line break.
ClinicalSummaryText(summary) ==
    [lines |-> ExpectedHeader(summary)
                 \o ExpectedVitalSigns(summary)
                 \o ExpectedPhysicalExam(summary)
                 \o ExpectedAssessment(summary)
                 \o ExpectedAdditionalNotes(summary),
     rest  |-> ""]

NextStepsText(nextSteps) ==
    [lines |-> ExpectedActions(nextSteps)
                 \o ExpectedFollowUp(nextSteps)
                 \o ExpectedRedFlags(nextSteps),
     rest  |-> ""]

PatientEmailText(email) ==
    [lines |-> <<Get(email, "greeting").s, "",
                 Get(email, "summary_of_findings").s, "",
                 "What we're doing next:",
                 Get(email, "treatment_plan").s, "">>
                 \o ExpectedInstructions(email)
                 \o ExpectedWarningSigns(email)
                 \o <<"", "Next Steps:",
                      Get(email, "next_steps_timeline").s, "",
                      Get(email, "closing").s, "">>,
     rest  |-> Get(email, "physician_signature").s]

\* The three texts of each payload the sessions can validate.
TextOf ==
    [response \in {PayloadJohnDoe, PayloadDarin} |->
       [clinical   |-> ClinicalSummaryText(Get(response, "clinical_summary")),
        next_steps |-> NextStepsText(Get(response, "next_steps")),
        email      |-> PatientEmailText(Get(response, "patient_email"))]]

(***************************************************************************)
(* C23.  The formatters are deterministic and free of side effects: the    *)
(* text each of them returns is a function of its input alone, whatever    *)
(* calls or session events came before, so that two calls with equal       *)
(* inputs return the same text; and a call leaves its input and the state  *)
(* of the sessions and of the form unchanged.                              *)
(***************************************************************************)
C23_FormattersArePure ==
    [][last'.op = "render"
         => /\ last'.input = structuredOutput
            /\ Lines(last'.texts.clinical) = TextOf[last'.input].clinical
            /\ Lines(last'.texts.next_steps) = TextOf[last'.input].next_steps
            /\ Lines(last'.texts.email) = TextOf[last'.input].email
            /\ last.op = "render" /\ last.input = last'.input
                 => last'.texts = last.texts
            /\ structuredOutput' = structuredOutput
            /\ sessions' = sessions
            /\ loading' = loading
            /\ output' = output
            /\ alerts' = alerts
            /\ delivered' = delivered]_vars

\* C23 witness: the results are rendered after the session that gave them
\* has gone on to an alert, and a second session has been started.
C23_Witness ==
    /\ last.op = "render"
    /\ last.input = PayloadJohnDoe
    /\ alerts > 0
    /\ Len(sessions) = MaxSessions
    /\ Text(last.texts.next_steps) =
         "1. [FOLLOW-UP] Schedule follow-up (Timeline: 1 week) [Priority: medium]\n"
           \o "\nFollow-up Appointment: 2025-11-20\n"

(***************************************************************************)
(* C24.  Handling a 'chunk' envelope has no terminal effect: it changes    *)
(* the buffer of its session and nothing else.  The loading flag, the      *)
(* structured output, the controller and the standing of every session,    *)
(* the alerts and the output are left as they were, and no outcome is      *)
(* reported.                                                               *)
(***************************************************************************)
C24_ChunkChangesOnlyTheBuffer ==
    [][(last'.op = "onmessage" /\ IsEnvelope(last'.input, "chunk"))
         => /\ loading' = loading
            /\ structuredOutput' = structuredOutput
            /\ alerts' = alerts
            /\ output' = output
            /\ last'.outcome = <<>>
            /\ last'.alert = <<>>
            /\ DOMAIN sessions' = DOMAIN sessions
            /\ \A s \in SessionIds :
                 /\ sessions'[s].controller = sessions[s].controller
                 /\ sessions'[s].pc = sessions[s].pc
                 /\ sessions'[s].connections = sessions[s].connections
                 /\ sessions'[s].outcomes = sessions[s].outcomes
                 /\ s # last'.s => sessions'[s] = sessions[s]]_vars

\* C24 witness: a chunk has just been handled; the session is still live
\* and loading, and its buffer holds the chunk.
C24_Witness ==
    /\ last.op = "onmessage"
    /\ last.input = JSONstringify(Chunk("lo"))
    /\ Live(last.s)
    /\ sessions[last.s].outcomes = 0
    /\ sessions[last.s].buffer = "lo"
    /\ loading
    /\ structuredOutput = Null

(***************************************************************************)
(* C25.  The final result does not depend on the streamed chunks: what a   *)
(* 'complete' envelope does is fixed by the envelope, whatever chunks the  *)
(* session received before it.  A payload that passes the schema gives     *)
(* Done and the declared part of the payload as the structured output; a   *)
(* payload that fails gives SchemaViolation and leaves the structured      *)
(* output as it was.                                                       *)
(***************************************************************************)
C25_ResultIndependentOfChunks ==
    [][(last'.op = "onmessage" /\ IsEnvelope(last'.input, "complete"))
         => IF ValidComplete(last'.input)
            THEN /\ last'.outcome = <<"Done">>
                 /\ structuredOutput' =
                      Declared(ConsultationSummaryResponseSchema,
                               Get(last'.input.value, "data"))
                 /\ loading' = FALSE
            ELSE /\ last'.outcome = <<"SchemaViolation">>
                 /\ structuredOutput' = structuredOutput
                 /\ loading' = FALSE]_vars

\* C25 witness: a valid 'complete' has just been handled in a session that
\* received two chunks before it, and its payload is the structured output.
C25_Witness ==
    /\ last.op = "onmessage"
    /\ last.input = JSONstringify(Complete(PayloadJohnDoe))
    /\ sessions[last.s].chunks = <<Str("lo"), Str("Hel")>>
    /\ structuredOutput = PayloadJohnDoe
    /\ last.outcome = <<"Done">>

(***************************************************************************)
(* C26.  Each session has an accumulator of its own that starts empty:     *)
(* the buffer of a session is "" when the session is created and when its  *)
(* connection is opened, grows by the content of a chunk delivered to that *)
(* same session, and is changed by nothing else, in particular not by a    *)
(* chunk delivered to another session whose connection is still open.      *)
(***************************************************************************)
C26_BufferHoldsOwnChunksOnly ==
    [][\A s \in DOMAIN sessions' :
         sessions'[s].buffer =
           IF s \notin SessionIds THEN ""
           ELSE IF last'.op = "getToken" /\ last'.s = s
                   /\ sessions'[s].connections # sessions[s].connections
           THEN ""
           ELSE IF last'.op = "onmessage" /\ last'.s = s
                   /\ IsEnvelope(last'.input, "chunk")
           THEN sessions[s].buffer \o Get(last'.input.value, "content").s
           ELSE sessions[s].buffer]_vars

\* C26 witness: two connections are open; the earlier session has just
\* received a chunk, after the later session received one, and each buffer
\* holds its own chunk only.
C26_Witness ==
    /\ Len(sessions) = 2
    /\ Live(1)
    /\ Live(2)
    /\ last.op = "onmessage"
    /\ last.s = 1
    /\ sessions[1].buffer = "Hel"
    /\ sessions[2].buffer = "lo"

(***************************************************************************)
(* C27.  No path of handleSubmit leaves the form stuck in the loading      *)
(* state: once the credential lookup of a submission has settled by        *)
(* failing, handleSubmit is over and loading is false.                     *)
(* A rejected getToken() leaves handleSubmit by the exception, past every  *)
(* setLoading(false), so this fails.                                       *)
(***************************************************************************)
C27_FailedLookupClearsLoading ==
    \A s \in SessionIds : sessions[s].pc = "rejected" => ~loading

(***************************************************************************)
(* C28.  The structured output changes only when a 'complete' envelope     *)
(* passes validation: no submission, chunk, unknown or malformed message,  *)
(* 'error' envelope, invalid 'complete' envelope, connection close,        *)
(* transport error or credential failure clears or alters it.              *)
(***************************************************************************)
C28_OutputChangesOnlyOnValidComplete ==
    [][structuredOutput' # structuredOutput
         => /\ last'.op = "onmessage"
            /\ ValidComplete(last'.input)
            /\ last'.outcome = <<"Done">>]_vars

\* C28 witness: a validated payload is shown and an invalid 'complete'
\* envelope has just been handled; the payload is still the one shown.
C28_Witness ==
    /\ structuredOutput = PayloadJohnDoe
    /\ last.op = "onmessage"
    /\ InvalidComplete(last.input)
    /\ last.outcome = <<"SchemaViolation">>

\* An optional field has no value: it is left out, null or the empty text.
NoValue(value) == value \in {Undefined, Null, Str("")}

\* object without those of the keys that have no value.
Strip(object, keys) ==
    Obj([k \in {j \in DOMAIN object.o : ~(j \in keys /\ NoValue(object.o[j]))}
           |-> object.o[k]])

\* The input of a formatter with every optional field that has no value
\* left out.
StripOptionals(fn, input) ==
    IF fn = "formatClinicalSummary"
    THEN With(Strip(input, {"vital_signs", "additional_notes"}),
              "assessments",
              Arr([i \in DOMAIN Get(input, "assessments").a |->
                     Strip(Get(input, "assessments").a[i],
                           {"icd_code", "severity"})]))
    ELSE With(Strip(input, {"follow_up_appointment", "red_flags"}),
              "actions",
              Arr([i \in DOMAIN Get(input, "actions").a |->
                     Strip(Get(input, "actions").a[i],
                           {"timeline", "priority"})]))

\* What a formatter would append for an optional field without a value if
\* it did not skip it.
PiecesOfNoValue ==
    LET texts == {"null", "undefined", ""}
    IN  texts
          \cup {" (ICD-10: " \o x \o ")" : x \in texts}
          \cup {" - Severity: " \o x : x \in texts}
          \cup {" (Timeline: " \o x \o ")" : x \in texts}
          \cup {" [Priority: " \o x \o "]" : x \in texts}
          \cup {"Follow-up Appointment: " \o x : x \in texts}

Range(seq) == {seq[i] : i \in DOMAIN seq}

(***************************************************************************)
(* C29.  formatClinicalSummary and formatNextSteps treat an optional field *)
(* that is left out, null or the empty text alike: for vital_signs,        *)
(* additional_notes, icd_code, severity, timeline, priority,               *)
(* follow_up_appointment and red_flags the text is the one of the input    *)
(* without that field, it has no block header and no suffix for it, and    *)
(* nowhere "null" or "undefined" in its place.                             *)
(***************************************************************************)
C29_NoValueGivesNoText ==
    last.op \in {"formatClinicalSummary", "formatNextSteps"} =>
      /\ last.result =
           IF last.op = "formatClinicalSummary"
           THEN formatClinicalSummary(StripOptionals(last.op, last.input))
           ELSE formatNextSteps(StripOptionals(last.op, last.input))
      /\ Range(last.result) \cap PiecesOfNoValue = {}
      /\ NoValue(Get(last.input, "vital_signs"))
           => "Vital Signs:" \notin Range(last.result)
      /\ NoValue(Get(last.input, "additional_notes"))
           => "Additional Notes:" \notin Range(last.result)
      /\ Get(last.input, "red_flags") \in {Undefined, Null, Arr(<<>>)}
           => WarningSign \o " Red Flags - Call immediately if:"
                \notin Range(last.result)

\* C29 witness: a summary with vital_signs null, additional_notes empty, an
\* assessment with severity null and one with an empty icd_code has been
\* formatted.
C29_Witness ==
    /\ last.op = "formatClinicalSummary"
    /\ Get(last.input, "vital_signs") = Null
    /\ Get(last.input, "additional_notes") = Str("")
    /\ Text(last.result) =
         "Patient: John Doe\nDate: 2025-11-15\n\nChief Complaint: Headache\n\n"
           \o "History of Present Illness:\nPatient reports headache.\n"
           \o "\nAssessment:\n1. Migraine (ICD-10: G43.9)\n"
           \o "2. Dehydration - Severity: severe\n"

=============================================================================
